---- MODULE Spec2Model ----
(***************************************************************************)
(* Frogger (src/main.ts): the pure reducer `reduceState` that is scanned   *)
(* over the merged stream of Move, Restart and Tick events.                *)
(*                                                                         *)
(* Units.  SPEED_INCREASE is 0.5 pixel per level, so every coordinate of   *)
(* the model is kept in half pixels: px(n) is n pixels.  All the other     *)
(* arithmetic of the source (width/2, width/4, sums of steps and speeds)   *)
(* is exact in half pixels.                                                *)
(*                                                                         *)
(* Identifiers.  The source parses ids by character position               *)
(* (`CAR${row}-${col}`[3], `FILLED${col}`[6]); an id is modelled as the    *)
(* tuple <<prefix, row, col>> or <<"FILLED", col>>, and the character      *)
(* access as the tuple access that reads the same digit.                   *)
(***************************************************************************)
EXTENDS Integers, Sequences, FiniteSets, TLC

\* Bound of the exploration: the number of Tick events reduced after Init.
MaxTicks == 3

\* ---- game constants (main.ts 14-52), in pixels ----
SPEED_INCREASE_DEN == 2
px(n) == n * SPEED_INCREASE_DEN
SPEED_INCREASE == px(1) \div SPEED_INCREASE_DEN

CANVAS_SIZE == 600
FROG_START_X == 279
FROG_START_Y == 523
FROG_STEP_X == 43
FROG_STEP_Y == 59
FROG_WIDTH == 40
FROG_HEIGHT == 42
CAR_COUNT == 3
CAR_WIDTH == 40
CAR_HEIGHT == 42
CAR1_SPEED == -10
CAR2_SPEED == 20
CAR3_SPEED == -15
LOG_COUNT == 3
LOG_WIDTH == 140
LOG_HEIGHT == 42
LOG1_SPEED == 10
LOG2_SPEED == 15
TURTLE_WIDTH == 180
TURTLE_HEIGHT == 42
TURTLE_SPEED == -5
TURTLE_COUNT == 3
TARGET_COUNT == 5
ROW_1 == 464
ROW_2 == 405
ROW_3 == 346
ROW_4 == 228
ROW_5 == 169
ROW_6 == 110
ROW_7 == 51
OBJECT_WIDTH == 200
BUSH_WIDTH == 129

\* ---- state of the scan: the fields of State (main.ts 99-110) ----
VARIABLES frog, cars, logs, turtles, filledSpaces, filledSpacesIndex,
          score, highscore, level, gameOver,
          ticks,   \* number of Tick events reduced so far (exploration bound)
          last     \* the event reduced last and what it observed

vars == <<frog, cars, logs, turtles, filledSpaces, filledSpacesIndex,
          score, highscore, level, gameOver, ticks, last>>

Abs(n) == IF n < 0 THEN -n ELSE n

\* ---- entity factory ----
createFrog(id, x, y, width, height) ==
  [id |-> id, x |-> x, y |-> y, width |-> width, height |-> height]

RECURSIVE createCarRow(_, _, _)
createCarRow(row, col, cs) ==
  IF col = 0 THEN cs
  ELSE LET newCar == [id |-> <<"CAR", row, col>>,
                      leftDirection |-> ~(row % 2 # 0),
                      x |-> px(col * OBJECT_WIDTH),
                      y |-> IF row = 3 THEN px(ROW_3)
                            ELSE IF row = 2 THEN px(ROW_2) ELSE px(ROW_1),
                      width |-> px(CAR_WIDTH),
                      height |-> px(CAR_HEIGHT)]
       IN createCarRow(row, col - 1, cs \o <<newCar>>)

RECURSIVE createLogRow(_, _, _)
createLogRow(row, col, ls) ==
  IF col = 0 THEN ls
  ELSE LET newLog == [id |-> <<"LOG", row, col>>,
                      leftDirection |-> FALSE,
                      x |-> px(col * OBJECT_WIDTH),
                      y |-> IF row = 2 THEN px(ROW_6) ELSE px(ROW_4),
                      width |-> px(LOG_WIDTH),
                      height |-> px(LOG_HEIGHT)]
       IN createLogRow(row, col - 1, ls \o <<newLog>>)

RECURSIVE createTurtleRow(_, _)
createTurtleRow(col, ts) ==
  IF col = 0 THEN ts
  ELSE LET newTurtle == [id |-> <<"TURTLE", col>>,
                         leftDirection |-> TRUE,
                         x |-> px(col * OBJECT_WIDTH),
                         y |-> px(ROW_5),
                         width |-> px(TURTLE_WIDTH),
                         height |-> px(TURTLE_HEIGHT)]
       IN createTurtleRow(col - 1, ts \o <<newTurtle>>)

RECURSIVE createFilledSpaces(_, _)
createFilledSpaces(col, fs) ==
  IF col = 0 THEN fs
  ELSE LET newFilledSpace ==
             [id |-> <<"FILLED", col>>,
              leftDirection |-> FALSE,
              x |-> px((FROG_START_X - 6 * FROG_STEP_X) + col * BUSH_WIDTH - BUSH_WIDTH),
              y |-> px(ROW_7),
              width |-> px(FROG_WIDTH),
              height |-> px(FROG_HEIGHT)]
       IN createFilledSpaces(col - 1, fs \o <<newFilledSpace>>)

\* ---- motion engine ----
wrap_toEdge(objectState, left, speed) ==
  LET newX == objectState.x + speed
  IN IF left
     THEN [objectState EXCEPT !.x = IF newX >= px(CANVAS_SIZE)
                                    THEN -objectState.width ELSE newX]
     ELSE [objectState EXCEPT !.x = IF newX <= -objectState.width
                                    THEN px(CANVAS_SIZE) ELSE newX]

wrap_strict(objectState, left, speed) ==
  LET newX == objectState.x + speed
  IN IF left
     THEN [objectState EXCEPT !.x = IF newX > px(CANVAS_SIZE)
                                    THEN -(objectState.width \div 2) ELSE newX]
     ELSE [objectState EXCEPT !.x = IF newX < -objectState.width
                                    THEN px(CANVAS_SIZE) - (objectState.width \div 2)
                                    ELSE newX]

wrap(objectState, left, speed) ==
  LET newX == objectState.x + speed
  IN IF left
     THEN [objectState EXCEPT !.x = IF newX >= px(CANVAS_SIZE)
                                    THEN -(objectState.width \div 2) ELSE newX]
     ELSE [objectState EXCEPT !.x = IF newX <= -objectState.width
                                    THEN px(CANVAS_SIZE) - (objectState.width \div 2)
                                    ELSE newX]

\* ---- collision detector ----
onWaterObj(f, object) ==
  (f.x >= object.x /\ f.x < object.x + 3 * px(FROG_STEP_X)) /\ f.y = object.y

frogOnLog(state) ==
  \E i \in 1..Len(state.logs) : onWaterObj(state.frog, state.logs[i])

frogOnTurtle(state) ==
  \E i \in 1..Len(state.turtles) : onWaterObj(state.frog, state.turtles[i])

getXCoord(num) == px(FROG_START_X) + num * px(FROG_STEP_X)

onBushes_shortBush(f) ==
  (   (f.x + f.width <= getXCoord(-3) + f.width \div 4
       /\ f.x >= getXCoord(-5) - f.width \div 4)
   \/ (f.x + f.width <= getXCoord(-1) + f.width \div 4
       /\ f.x >= getXCoord(-2) - f.width \div 4)
   \/ (f.x + f.width <= getXCoord(3) + f.width \div 4
       /\ f.x >= getXCoord(1) - f.width \div 4)
   \/ (f.x + f.width <= getXCoord(6) + f.width \div 4
       /\ f.x >= getXCoord(4) - f.width \div 4))
  /\ f.y = px(ROW_7)

onBushes(f) ==
  (   (f.x + f.width <= getXCoord(-3) + f.width \div 4
       /\ f.x >= getXCoord(-5) - f.width \div 4)
   \/ (f.x + f.width <= px(FROG_START_X) + f.width \div 4
       /\ f.x >= getXCoord(-2) - f.width \div 4)
   \/ (f.x + f.width <= getXCoord(3) + f.width \div 4
       /\ f.x >= getXCoord(1) - f.width \div 4)
   \/ (f.x + f.width <= getXCoord(6) + f.width \div 4
       /\ f.x >= getXCoord(4) - f.width \div 4))
  /\ f.y = px(ROW_7)

obstacleCollision(f, obstacle) ==
  (   (obstacle.x < f.x + f.width /\ f.x < obstacle.x)
   \/ (obstacle.x + obstacle.width > f.x
       /\ f.x + f.width > obstacle.x + obstacle.width))
  /\ f.y = obstacle.y

onWater(f) == f.y >= px(ROW_6) /\ f.y <= px(ROW_4)

unsafeBoundary_strict(f) ==
  f.x + f.width \div 2 > px(CANVAS_SIZE) \/ f.x + f.width \div 2 < 0

unsafeBoundary(f) ==
  f.x + f.width \div 2 >= px(CANVAS_SIZE) \/ f.x + f.width \div 2 <= 0

handleCollisions(state) ==
  LET frogCollided ==
        \E i \in 1..Len(state.cars) : obstacleCollision(state.frog, state.cars[i])
      frogOnObj == frogOnLog(state) \/ frogOnTurtle(state)
  IN [state EXCEPT !.gameOver =
        frogCollided
        \/ (onWater(state.frog) /\ ~frogOnObj)
        \/ (frogOnObj /\ unsafeBoundary(state.frog))
        \/ onBushes(state.frog)]

\* ---- initial state ----
initialFrog_swapped ==
  createFrog("FROG", px(FROG_START_Y), px(FROG_START_X), px(FROG_WIDTH), px(FROG_HEIGHT))

initialFrog ==
  createFrog("FROG", px(FROG_START_X), px(FROG_START_Y), px(FROG_WIDTH), px(FROG_HEIGHT))
initialCars ==
  createCarRow(1, CAR_COUNT, <<>>) \o createCarRow(2, CAR_COUNT, <<>>)
    \o createCarRow(3, CAR_COUNT, <<>>)
initialLogs == createLogRow(1, LOG_COUNT, <<>>) \o createLogRow(2, LOG_COUNT, <<>>)
initialTurtles == createTurtleRow(TURTLE_COUNT, <<>>)
initialFilledSpaces_stepSpacing ==
  [i \in 1..TARGET_COUNT |->
     [createFilledSpaces(TARGET_COUNT, <<>>)[i] EXCEPT
        !.x = px((FROG_START_X - 6 * FROG_STEP_X)
                 + (TARGET_COUNT + 1 - i) * 2 * FROG_STEP_X - 2 * FROG_STEP_X)]]

initialFilledSpaces == createFilledSpaces(TARGET_COUNT, <<>>)

initialState ==
  [frog |-> initialFrog,
   cars |-> initialCars,
   logs |-> initialLogs,
   turtles |-> initialTurtles,
   filledSpaces |-> initialFilledSpaces,
   filledSpacesIndex |-> <<>>,
   score |-> 0,
   highscore |-> 0,
   level |-> 0,
   gameOver |-> FALSE]

\* ---- play-field bounds ----
outLeftBound(xPos) == xPos < getXCoord(-6)
outRightBound(xPos) == xPos >= getXCoord(7)
outUpBound(yPos) == yPos < px(ROW_7)
outDownBound(yPos) == yPos >= px(FROG_START_Y) + px(FROG_STEP_Y)
illegalMove(xPos, yPos) ==
  outLeftBound(xPos) \/ outRightBound(xPos) \/ outUpBound(yPos) \/ outDownBound(yPos)

\* ---- progress tracker ----
inTarget(state) == state.frog.y = px(ROW_7) /\ ~onBushes(state.frog)

\* Array.reduce without a seed: the accumulator starts as the first element
\* and is replaced only by a strictly nearer one.
RECURSIVE nearestFrom(_, _, _, _)
nearestFrom(spaces, f, i, acc) ==
  IF i > Len(spaces) THEN acc
  ELSE nearestFrom(spaces, f, i + 1,
                   IF Abs(spaces[i].x - f.x) < Abs(acc.x - f.x) THEN spaces[i] ELSE acc)
nearestObject(state) ==
  nearestFrom(state.filledSpaces, state.frog, 2, state.filledSpaces[1])

Includes(seq, v) == \E i \in 1..Len(seq) : seq[i] = v

updateFilledInd_offByOne(state) ==
  IF inTarget(state)
  THEN LET targetIndex == nearestObject(state).id[2]
       IN state.filledSpacesIndex \o
            (IF Includes(state.filledSpacesIndex, targetIndex)
             THEN <<>> ELSE <<targetIndex>>)
  ELSE state.filledSpacesIndex

updateFilledInd_alwaysAppend(state) ==
  IF inTarget(state)
  THEN LET targetIndex == nearestObject(state).id[2] - 1
       IN state.filledSpacesIndex \o <<targetIndex>>
  ELSE state.filledSpacesIndex

updateFilledInd_anyGoalRow(state) ==
  IF state.frog.y = px(ROW_7)
  THEN LET targetIndex == nearestObject(state).id[2] - 1
       IN state.filledSpacesIndex \o
            (IF Includes(state.filledSpacesIndex, targetIndex)
             THEN <<>> ELSE <<targetIndex>>)
  ELSE state.filledSpacesIndex

updateFilledInd(state) ==
  IF inTarget(state)
  THEN LET targetIndex == nearestObject(state).id[2] - 1
       IN state.filledSpacesIndex \o
            (IF Includes(state.filledSpacesIndex, targetIndex)
             THEN <<>> ELSE <<targetIndex>>)
  ELSE state.filledSpacesIndex

checkFilled(state) ==
  LET targetIndex == nearestObject(state).id[2] - 1
  IN Includes(state.filledSpacesIndex, targetIndex)

updateScore_noCheck(state) ==
  IF inTarget(state)
  THEN state.score + 100
  ELSE state.score

updateScore_perLevel(state) ==
  IF inTarget(state) /\ ~checkFilled(state)
  THEN state.score + 100 * (state.level + 1)
  ELSE state.score

updateScore(state) ==
  IF inTarget(state) /\ ~checkFilled(state)
  THEN state.score + 100
  ELSE state.score

\* ---- world reducer ----
speedMultiplierOf(currentState) == currentState.level * SPEED_INCREASE

moveCars(currentState) ==
  LET speedMultiplier == speedMultiplierOf(currentState)
      cs == currentState.cars
  IN [i \in 1..Len(cs) |->
        IF cs[i].leftDirection
        THEN wrap(cs[i], TRUE, px(CAR2_SPEED) + speedMultiplier)
        ELSE IF cs[i].id[2] = 3
             THEN wrap(cs[i], FALSE, px(CAR3_SPEED) - speedMultiplier)
             ELSE wrap(cs[i], FALSE, px(CAR1_SPEED) - speedMultiplier)]

moveLogs(currentState) ==
  LET speedMultiplier == speedMultiplierOf(currentState)
      ls == currentState.logs
  IN [i \in 1..Len(ls) |->
        IF ls[i].id[2] = 2
        THEN wrap(ls[i], TRUE, px(LOG2_SPEED) + speedMultiplier)
        ELSE wrap(ls[i], TRUE, px(LOG1_SPEED) + speedMultiplier)]

moveTurtles(currentState) ==
  LET speedMultiplier == speedMultiplierOf(currentState)
      ts == currentState.turtles
  IN [i \in 1..Len(ts) |-> wrap(ts[i], FALSE, px(TURTLE_SPEED) - speedMultiplier)]

newHighscore_takesScore(currentState) == currentState.score

newHighscore_stale(currentState) == currentState.highscore

newHighscore(currentState) ==
  IF currentState.highscore <= currentState.score
  THEN currentState.score ELSE currentState.highscore

moveFrog_swappedRows(currentState) ==
  LET speedMultiplier == speedMultiplierOf(currentState)
      f == currentState.frog
  IN IF inTarget(currentState) THEN initialState.frog
     ELSE IF frogOnLog(currentState) /\ f.y = currentState.logs[4].y
     THEN [f EXCEPT !.x = f.x + (px(LOG1_SPEED) + speedMultiplier)]
     ELSE IF frogOnLog(currentState) /\ f.y = currentState.logs[1].y
     THEN [f EXCEPT !.x = f.x + (px(LOG2_SPEED) + speedMultiplier)]
     ELSE IF frogOnTurtle(currentState) /\ f.y = currentState.turtles[1].y
     THEN [f EXCEPT !.x = f.x + (px(TURTLE_SPEED) - speedMultiplier)]
     ELSE f

moveFrog_freshOnly(currentState) ==
  LET speedMultiplier == speedMultiplierOf(currentState)
      f == currentState.frog
  IN IF inTarget(currentState) /\ ~checkFilled(currentState) THEN initialState.frog
     ELSE IF frogOnLog(currentState) /\ f.y = currentState.logs[1].y
     THEN [f EXCEPT !.x = f.x + (px(LOG1_SPEED) + speedMultiplier)]
     ELSE IF frogOnLog(currentState) /\ f.y = currentState.logs[4].y
     THEN [f EXCEPT !.x = f.x + (px(LOG2_SPEED) + speedMultiplier)]
     ELSE IF frogOnTurtle(currentState) /\ f.y = currentState.turtles[1].y
     THEN [f EXCEPT !.x = f.x + (px(TURTLE_SPEED) - speedMultiplier)]
     ELSE f

\* logs[0], logs[3] and turtles[0] of the source are the first log of row 1,
\* the first log of row 2 and the first turtle group.
moveFrog(currentState) ==
  LET speedMultiplier == speedMultiplierOf(currentState)
      f == currentState.frog
  IN IF inTarget(currentState) THEN initialState.frog
     ELSE IF frogOnLog(currentState) /\ f.y = currentState.logs[1].y
     THEN [f EXCEPT !.x = f.x + (px(LOG1_SPEED) + speedMultiplier)]
     ELSE IF frogOnLog(currentState) /\ f.y = currentState.logs[4].y
     THEN [f EXCEPT !.x = f.x + (px(LOG2_SPEED) + speedMultiplier)]
     ELSE IF frogOnTurtle(currentState) /\ f.y = currentState.turtles[1].y
     THEN [f EXCEPT !.x = f.x + (px(TURTLE_SPEED) - speedMultiplier)]
     ELSE f

\* Restart branch of reduceState
restartState_initial(currentState) == initialState

restartState_keepsLevel(currentState) ==
  [currentState EXCEPT
     !.frog = createFrog("FROG", px(FROG_START_X), px(FROG_START_Y),
                         px(FROG_WIDTH), px(FROG_HEIGHT)),
     !.cars = createCarRow(1, CAR_COUNT, <<>>) \o createCarRow(2, CAR_COUNT, <<>>)
                \o createCarRow(3, CAR_COUNT, <<>>),
     !.logs = createLogRow(1, LOG_COUNT, <<>>) \o createLogRow(2, LOG_COUNT, <<>>),
     !.turtles = createTurtleRow(TURTLE_COUNT, <<>>),
     !.filledSpaces = createFilledSpaces(TARGET_COUNT, <<>>),
     !.filledSpacesIndex = <<>>,
     !.score = 0,
     !.gameOver = FALSE]

restartState(currentState) ==
  [currentState EXCEPT
     !.frog = createFrog("FROG", px(FROG_START_X), px(FROG_START_Y),
                         px(FROG_WIDTH), px(FROG_HEIGHT)),
     !.cars = createCarRow(1, CAR_COUNT, <<>>) \o createCarRow(2, CAR_COUNT, <<>>)
                \o createCarRow(3, CAR_COUNT, <<>>),
     !.logs = createLogRow(1, LOG_COUNT, <<>>) \o createLogRow(2, LOG_COUNT, <<>>),
     !.turtles = createTurtleRow(TURTLE_COUNT, <<>>),
     !.filledSpaces = createFilledSpaces(TARGET_COUNT, <<>>),
     !.filledSpacesIndex = <<>>,
     !.score = 0,
     !.level = 0,
     !.gameOver = FALSE]

\* game-over branch of tick
resetState_initial(currentState) == initialState

resetState_keepsFlag(currentState) ==
  [resetState_initial(currentState) EXCEPT
     !.highscore = currentState.highscore,
     !.gameOver = currentState.gameOver]

resetState(currentState) ==
  [currentState EXCEPT
     !.frog = createFrog("FROG", px(FROG_START_X), px(FROG_START_Y),
                         px(FROG_WIDTH), px(FROG_HEIGHT)),
     !.cars = createCarRow(1, CAR_COUNT, <<>>) \o createCarRow(2, CAR_COUNT, <<>>)
                \o createCarRow(3, CAR_COUNT, <<>>),
     !.logs = createLogRow(1, LOG_COUNT, <<>>) \o createLogRow(2, LOG_COUNT, <<>>),
     !.turtles = createTurtleRow(TURTLE_COUNT, <<>>),
     !.filledSpaces = createFilledSpaces(TARGET_COUNT, <<>>),
     !.filledSpacesIndex = <<>>,
     !.score = 0,
     !.level = 0,
     !.gameOver = FALSE]

tickPlaying_collideFirst(currentState) ==
  [currentState EXCEPT
     !.gameOver = handleCollisions(currentState).gameOver,
     !.cars = moveCars(currentState),
     !.logs = moveLogs(currentState),
     !.turtles = moveTurtles(currentState),
     !.score = updateScore(currentState),
     !.highscore = newHighscore(currentState),
     !.frog = moveFrog(currentState),
     !.filledSpacesIndex = updateFilledInd(currentState)]

tickPlaying(currentState) ==
  handleCollisions(
    [currentState EXCEPT
       !.cars = moveCars(currentState),
       !.logs = moveLogs(currentState),
       !.turtles = moveTurtles(currentState),
       !.score = updateScore(currentState),
       !.highscore = newHighscore(currentState),
       !.frog = moveFrog(currentState),
       !.filledSpacesIndex = updateFilledInd(currentState)])

tickRollover_keepsFilled(currentState) ==
  handleCollisions(
    [currentState EXCEPT
       !.level = currentState.level + 1,
       !.cars = moveCars(currentState),
       !.logs = moveLogs(currentState),
       !.turtles = moveTurtles(currentState),
       !.score = updateScore(currentState),
       !.highscore = newHighscore(currentState),
       !.frog = moveFrog(currentState),
       !.filledSpacesIndex = updateFilledInd(currentState)])

tickRollover_resetsScore(currentState) ==
  handleCollisions(
    [currentState EXCEPT
       !.level = currentState.level + 1,
       !.cars = moveCars(currentState),
       !.logs = moveLogs(currentState),
       !.turtles = moveTurtles(currentState),
       !.score = 0,
       !.highscore = newHighscore(currentState),
       !.frog = moveFrog(currentState),
       !.filledSpacesIndex = <<>>])

tickRollover_rebuilds(currentState) ==
  handleCollisions(
    [currentState EXCEPT
       !.level = currentState.level + 1,
       !.cars = initialCars,
       !.logs = initialLogs,
       !.turtles = initialTurtles,
       !.filledSpaces = initialFilledSpaces,
       !.score = updateScore(currentState),
       !.highscore = newHighscore(currentState),
       !.frog = moveFrog(currentState),
       !.filledSpacesIndex = <<>>])

tickRollover_newLevelSpeed(currentState) ==
  LET raised == [currentState EXCEPT !.level = currentState.level + 1]
  IN handleCollisions(
       [currentState EXCEPT
          !.level = currentState.level + 1,
          !.cars = moveCars(raised),
          !.logs = moveLogs(raised),
          !.turtles = moveTurtles(raised),
          !.score = updateScore(currentState),
          !.highscore = newHighscore(currentState),
          !.frog = moveFrog(currentState),
          !.filledSpacesIndex = <<>>])

tickRollover_recordsEntry(currentState) ==
  handleCollisions(
    [currentState EXCEPT
       !.level = currentState.level + 1,
       !.cars = moveCars(currentState),
       !.logs = moveLogs(currentState),
       !.turtles = moveTurtles(currentState),
       !.score = IF inTarget(currentState)
                 THEN currentState.score + 100 ELSE currentState.score,
       !.highscore = newHighscore(currentState),
       !.frog = moveFrog(currentState),
       !.filledSpacesIndex =
          IF inTarget(currentState)
          THEN <<nearestObject(currentState).id[2] - 1>> ELSE <<>>])

tickRollover(currentState) ==
  handleCollisions(
    [currentState EXCEPT
       !.level = currentState.level + 1,
       !.cars = moveCars(currentState),
       !.logs = moveLogs(currentState),
       !.turtles = moveTurtles(currentState),
       !.score = updateScore(currentState),
       !.highscore = newHighscore(currentState),
       !.frog = moveFrog(currentState),
       !.filledSpacesIndex = <<>>])

tick(currentState) ==
  IF currentState.gameOver THEN resetState(currentState)
  ELSE IF Len(currentState.filledSpacesIndex) < 5 THEN tickPlaying(currentState)
  ELSE tickRollover(currentState)

moveState_collides(currentState, ex, ey) ==
  LET newX == currentState.frog.x + ex
      newY == currentState.frog.y + ey
  IN handleCollisions(
       [currentState EXCEPT
          !.frog = [currentState.frog EXCEPT
             !.x = IF illegalMove(newX, px(FROG_START_Y))
                   THEN currentState.frog.x ELSE currentState.frog.x + ex,
             !.y = IF illegalMove(px(FROG_START_X), newY)
                   THEN currentState.frog.y ELSE currentState.frog.y + ey]])

moveState_jointCheck(currentState, ex, ey) ==
  LET newX == currentState.frog.x + ex
      newY == currentState.frog.y + ey
  IN [currentState EXCEPT
        !.frog = [currentState.frog EXCEPT
           !.x = IF illegalMove(newX, newY)
                 THEN currentState.frog.x ELSE currentState.frog.x + ex,
           !.y = IF illegalMove(newX, newY)
                 THEN currentState.frog.y ELSE currentState.frog.y + ey]]

moveState(currentState, ex, ey) ==
  LET newX == currentState.frog.x + ex
      newY == currentState.frog.y + ey
  IN [currentState EXCEPT
        !.frog = [currentState.frog EXCEPT
           !.x = IF illegalMove(newX, px(FROG_START_Y))
                 THEN currentState.frog.x ELSE currentState.frog.x + ex,
           !.y = IF illegalMove(px(FROG_START_X), newY)
                 THEN currentState.frog.y ELSE currentState.frog.y + ey]]

\* event is <<"Move", x, y>>, <<"Restart">> or <<"Tick">>
reduceState(currentState, event) ==
  IF event[1] = "Move" THEN moveState(currentState, event[2], event[3])
  ELSE IF event[1] = "Restart" THEN restartState(currentState)
  ELSE tick(currentState)

\* ---- the scan over the merged event stream ----
\* scan(reduceState, seed) over a finite event sequence
RECURSIVE scan(_, _)
scan(seed, events) ==
  IF events = <<>> THEN seed
  ELSE LET acc == reduceState(seed, Head(events))
       IN IF acc.gameOver \in BOOLEAN THEN scan(acc, Tail(events)) ELSE acc

\* The events the key and clock observables emit.
KeyA == <<"Move", -px(FROG_STEP_X), 0>>
KeyD == <<"Move", px(FROG_STEP_X), 0>>
KeyW == <<"Move", 0, -px(FROG_STEP_Y)>>
KeyS == <<"Move", 0, px(FROG_STEP_Y)>>
Enter == <<"Restart">>
Clock == <<"Tick">>

\* A played prefix: from the start position, eight steps up and three steps
\* sideways per slot bring the frog into target slot k between two clock
\* ticks; the tick that follows records the slot and returns the frog.
Repeat(e, n) == [i \in 1..n |-> e]
FillSlot(k) ==
  Repeat(KeyW, 8)
    \o (IF k < 2 THEN Repeat(KeyA, 3 * (2 - k)) ELSE Repeat(KeyD, 3 * (k - 2)))
    \o <<Clock>>
playSlot(seed, k) == scan(seed, FillSlot(k))
FourFills(seed) == playSlot(playSlot(playSlot(playSlot(seed, 2), 0), 3), 1)

\* Snapshots the exploration starts from: the initial snapshot, and the
\* snapshot the reducer itself returns after the played prefix FourFills.
StartSnapshots == {initialState, FourFills(initialState)}

State ==
  [frog |-> frog, cars |-> cars, logs |-> logs, turtles |-> turtles,
   filledSpaces |-> filledSpaces, filledSpacesIndex |-> filledSpacesIndex,
   score |-> score, highscore |-> highscore, level |-> level,
   gameOver |-> gameOver]

Emit(s) ==
  /\ frog' = s.frog
  /\ cars' = s.cars
  /\ logs' = s.logs
  /\ turtles' = s.turtles
  /\ filledSpaces' = s.filledSpaces
  /\ filledSpacesIndex' = s.filledSpacesIndex
  /\ score' = s.score
  /\ highscore' = s.highscore
  /\ level' = s.level
  /\ gameOver' = s.gameOver

\* What the event reduced last was and what it was applied to.
Observed(type, s) ==
  [type |-> type,
   gameOver |-> s.gameOver,
   score |-> s.score,
   filled |-> Len(s.filledSpacesIndex),
   level |-> s.level,
   riding |-> type = "Tick" /\ (frogOnLog(s) \/ frogOnTurtle(s)),
   target |-> IF ~inTarget(s) THEN "none"
              ELSE IF checkFilled(s) THEN "filled" ELSE "fresh"]

Init ==
  /\ \E s \in StartSnapshots :
       /\ frog = s.frog
       /\ cars = s.cars
       /\ logs = s.logs
       /\ turtles = s.turtles
       /\ filledSpaces = s.filledSpaces
       /\ filledSpacesIndex = s.filledSpacesIndex
       /\ score = s.score
       /\ highscore = s.highscore
       /\ level = s.level
       /\ gameOver = s.gameOver
       /\ last = Observed("Init", s)
  /\ ticks = 0

MoveEvent(event) ==
  /\ Emit(reduceState(State, event))
  /\ last' = Observed("Move", State)
  /\ UNCHANGED ticks

moveLeft == MoveEvent(KeyA)
moveRight == MoveEvent(KeyD)
moveUp == MoveEvent(KeyW)
moveDown == MoveEvent(KeyS)

restart ==
  /\ Emit(reduceState(State, Enter))
  /\ last' = Observed("Restart", State)
  /\ UNCHANGED ticks

tickEvent ==
  /\ ticks < MaxTicks
  /\ Emit(reduceState(State, Clock))
  /\ last' = Observed("Tick", State)
  /\ ticks' = ticks + 1

Next == moveLeft \/ moveRight \/ moveUp \/ moveDown \/ restart \/ tickEvent

Spec == Init /\ [][Next]_vars

\* ---- the clock alone ----
\* No key is pressed: the frog waits at the start position and only tick$
\* emits, so the bodies run through their wraps.  The runs start at level 0
\* and at the higher levels, which are reached by the played prefix of
\* PlayLevels: five slots filled and the rollover tick, once per level.
MaxClockTicks == 80
MaxLevel == 2

LevelUp(seed) == scan(playSlot(FourFills(seed), 4), <<Clock>>)
RECURSIVE PlayLevels(_)
PlayLevels(n) == IF n = 0 THEN initialState ELSE LevelUp(PlayLevels(n - 1))

ClockSnapshots == {PlayLevels(n) : n \in 0..MaxLevel}

InitClock ==
  /\ \E s \in ClockSnapshots :
       /\ frog = s.frog
       /\ cars = s.cars
       /\ logs = s.logs
       /\ turtles = s.turtles
       /\ filledSpaces = s.filledSpaces
       /\ filledSpacesIndex = s.filledSpacesIndex
       /\ score = s.score
       /\ highscore = s.highscore
       /\ level = s.level
       /\ gameOver = s.gameOver
       /\ last = Observed("Init", s)
  /\ ticks = 0

clockTick ==
  /\ ticks < MaxClockTicks
  /\ Emit(reduceState(State, Clock))
  /\ last' = Observed("Tick", State)
  /\ ticks' = ticks + 1

SpecClock == InitClock /\ [][clockTick]_vars

\* ---- the clock under fairness ----
\* tick$ is interval(TICK_RATE): it emits again and again for as long as the
\* page runs, so the Tick of a game-over snapshot is never postponed for
\* ever.  Ticks of playing snapshots are counted against MaxFairTicks, which
\* only bounds the exploration; the Tick that takes the game-over branch of
\* tick is always available, and fairness is stated for it.
MaxFairTicks == 1

playTick ==
  /\ ~gameOver
  /\ ticks < MaxFairTicks
  /\ Emit(reduceState(State, Clock))
  /\ last' = Observed("Tick", State)
  /\ ticks' = ticks + 1

resetTick ==
  /\ gameOver
  /\ Emit(reduceState(State, Clock))
  /\ last' = Observed("Tick", State)
  /\ UNCHANGED ticks

NextFair ==
  moveLeft \/ moveRight \/ moveUp \/ moveDown \/ restart \/ playTick \/ resetTick

SpecFair == Init /\ [][NextFair]_vars /\ WF_vars(resetTick)

\* ---- rides towards the canvas edges ----
\* The frog waits at the start position, boards a platform and lets the clock
\* carry it: LeftRide ends on a turtle group two Ticks short of the left
\* edge, RightRide on a log of row 1 two Ticks short of the right Move
\* bound.  From there every key and the clock are explored.
MaxRideTicks == 2

Wait(seed, n) == scan(seed, Repeat(Clock, n))
BoardTurtle == Repeat(KeyA, 3) \o Repeat(KeyW, 6)
BoardLog == Repeat(KeyA, 3) \o Repeat(KeyW, 5)
LeftRide == Wait(Wait(scan(Wait(initialState, 10), BoardTurtle), 16), 16)
RightRide ==
  Wait(Wait(Wait(scan(Wait(initialState, 11), BoardLog), 14), 14), 13)
RideSnapshots == {LeftRide, RightRide}

InitRide ==
  /\ \E s \in RideSnapshots :
       /\ frog = s.frog
       /\ cars = s.cars
       /\ logs = s.logs
       /\ turtles = s.turtles
       /\ filledSpaces = s.filledSpaces
       /\ filledSpacesIndex = s.filledSpacesIndex
       /\ score = s.score
       /\ highscore = s.highscore
       /\ level = s.level
       /\ gameOver = s.gameOver
       /\ last = Observed("Init", s)
  /\ ticks = 0

rideTick ==
  /\ ticks < MaxRideTicks
  /\ Emit(reduceState(State, Clock))
  /\ last' = Observed("Tick", State)
  /\ ticks' = ticks + 1

NextRide == moveLeft \/ moveRight \/ moveUp \/ moveDown \/ restart \/ rideTick

SpecRide == InitRide /\ [][NextRide]_vars

\* ---- reduceState on an arbitrary Move(x, y) ----
\* The Move class carries both components; the key observables only ever set
\* one of them.  Here a Move takes any combination of one step or none per
\* axis, from the positions the frog has after moves and up to MaxDriftTicks
\* clock ticks (riding takes the frog off the step grid).
MaxDriftTicks == 1

StepsX == {-px(FROG_STEP_X), 0, px(FROG_STEP_X)}
StepsY == {-px(FROG_STEP_Y), 0, px(FROG_STEP_Y)}

anyMove(ex, ey) ==
  /\ Emit(reduceState(State, <<"Move", ex, ey>>))
  /\ last' = [type |-> "Move", x |-> ex, y |-> ey, frog |-> frog]
  /\ UNCHANGED ticks

driftTick ==
  /\ ticks < MaxDriftTicks
  /\ Emit(reduceState(State, Clock))
  /\ last' = Observed("Tick", State)
  /\ ticks' = ticks + 1

NextMove == (\E ex \in StepsX, ey \in StepsY : anyMove(ex, ey)) \/ driftTick

SpecMove == Init /\ [][NextMove]_vars

\* ======================= properties =======================
ResetSnapshot(hs) == [initialState EXCEPT !.highscore = hs]
PlayingTick == last'.type = "Tick" /\ ~gameOver
Max(a, b) == IF a >= b THEN a ELSE b

\* Slot k (0..4) of the goal row, as the claims state it.
SlotX(k) == px(21 + 129 * k)
NearestIndex(x) ==
  CHOOSE k \in 0..4 : \A j \in 0..4 : Abs(SlotX(k) - x) <= Abs(SlotX(j) - x)
SpansIntersect(a, b) == a.x < b.x + b.width /\ b.x < a.x + a.width

\* C1: a Tick applied to a snapshot with gameOver = TRUE returns the initial
\* snapshot in every field (nothing is advanced), except that highscore keeps
\* its pre-tick value.
C1_GameOverTickResets ==
  [][(last'.type = "Tick" /\ gameOver) => State' = ResetSnapshot(highscore)]_vars

C1_Witness ==
  /\ last.type = "Tick" /\ last.gameOver
  /\ last.score > 0 /\ last.filled > 0
  /\ highscore > 0

\* C2: from any snapshot a Restart yields the initial layout, score 0, no
\* filled slot, level 0 and gameOver FALSE, and leaves highscore as it was.
C2_RestartResets ==
  [][last'.type = "Restart" => State' = ResetSnapshot(highscore)]_vars

C2_Witness ==
  /\ last.type = "Restart" /\ ~last.gameOver
  /\ last.score > 0
  /\ highscore > 0 /\ score = 0

\* C3: after a Tick of a snapshot with gameOver = FALSE, gameOver is the
\* disjunction of car strike, river immersion without riding, unsafe boundary
\* while riding and bush intrusion, all taken on the positions that the same
\* tick produced.
C3_GameOverVerdict ==
  [][PlayingTick =>
       LET f == frog'
           strike == \E i \in 1..Len(cars') : obstacleCollision(f, cars'[i])
           riding == \/ \E i \in 1..Len(logs') : onWaterObj(f, logs'[i])
                     \/ \E i \in 1..Len(turtles') : onWaterObj(f, turtles'[i])
           river == f.y >= px(110) /\ f.y <= px(228)
           edge == f.x + f.width \div 2 >= px(600) \/ f.x + f.width \div 2 <= 0
       IN gameOver' = (strike \/ (river /\ ~riding) \/ (riding /\ edge) \/ onBushes(f))
    ]_vars

C3_Witness ==
  /\ last.type = "Tick" /\ ~last.gameOver
  /\ gameOver
  /\ \E i \in 1..Len(cars) : obstacleCollision(frog, cars[i])

\* C4: the strike predicate is true exactly when a car and the frog are on the
\* same row with intersecting spans [x, x+width), the aligned case included,
\* and the Tick that evaluates such a position sets gameOver.
C4_StrikeExact ==
  \A i \in 1..Len(cars) :
    LET hit == frog.y = cars[i].y /\ SpansIntersect(frog, cars[i])
    IN /\ obstacleCollision(frog, cars[i]) <=> hit
       /\ (last.type = "Tick" /\ ~last.gameOver /\ hit) => gameOver

\* C5 (as claimed): a Tick of a non-game-over snapshot with all five slots
\* filled gives level + 1, an empty filled list, and leaves score and
\* highscore as they were.
C5_RolloverKeepsHighscore ==
  [][(PlayingTick /\ Len(filledSpacesIndex) = 5) =>
       /\ level' = level + 1
       /\ filledSpacesIndex' = <<>>
       /\ score' = score
       /\ highscore' = highscore]_vars

\* C5 (amended): a Tick of a non-game-over snapshot with all five slots filled
\* gives level + 1, an empty filled list and the same score; highscore gets
\* the ordinary per-tick refresh max(highscore, score).
C5_Rollover ==
  [][(PlayingTick /\ Len(filledSpacesIndex) = 5) =>
       /\ level' = level + 1
       /\ filledSpacesIndex' = <<>>
       /\ score' = score
       /\ highscore' = Max(highscore, score)]_vars

C5_Witness ==
  /\ last.type = "Tick" /\ ~last.gameOver /\ last.filled = 5
  /\ level = 1 /\ filledSpacesIndex = <<>>
  /\ score = 500 /\ highscore = 500

\* C6: on a Tick of a non-game-over snapshot with fewer than five slots
\* filled, a frog in a target gap whose nearest slot is not yet recorded earns
\* exactly 100 and exactly that index is appended; the score grows on such a
\* tick in no other case, so a recorded slot never pays again.
C6_FreshSlotScores ==
  [][(PlayingTick /\ Len(filledSpacesIndex) < 5) =>
       LET k == NearestIndex(frog.x)
           fresh == inTarget(State) /\ ~Includes(filledSpacesIndex, k)
       IN /\ fresh => /\ score' = score + 100
                      /\ filledSpacesIndex' = Append(filledSpacesIndex, k)
          /\ ~fresh => score' = score]_vars

C6_Witness ==
  /\ last.type = "Tick" /\ ~last.gameOver /\ last.target = "fresh"
  /\ last.filled = 1 /\ Len(filledSpacesIndex) = 2
  /\ score = last.score + 100

\* C7 (as claimed): whenever a Tick observes the frog in a target gap whose
\* nearest slot is already recorded, the filled list and the score are the
\* same after the tick.
C7_RefillChangesNothing ==
  [][(last'.type = "Tick" /\ inTarget(State)
        /\ Includes(filledSpacesIndex, NearestIndex(frog.x))) =>
       /\ filledSpacesIndex' = filledSpacesIndex
       /\ score' = score]_vars

\* C7 (amended): when a Tick of a non-game-over snapshot with fewer than five
\* slots filled observes the frog in a target gap whose nearest slot is
\* already recorded, the filled list and the score are the same after the tick.
C7_RefillWhilePlaying ==
  [][(PlayingTick /\ Len(filledSpacesIndex) < 5 /\ inTarget(State)
        /\ Includes(filledSpacesIndex, NearestIndex(frog.x))) =>
       /\ filledSpacesIndex' = filledSpacesIndex
       /\ score' = score]_vars

C7_Witness ==
  /\ last.type = "Tick" /\ ~last.gameOver /\ last.target = "filled"
  /\ last.filled \in 1..4
  /\ Len(filledSpacesIndex) = last.filled /\ score = last.score

\* C8: highscore never decreases, whatever the event.
C8_HighscoreMonotone == [][highscore' >= highscore]_vars

C8_Witness ==
  /\ last.type = "Tick" /\ ~last.gameOver
  /\ highscore = last.score /\ highscore > 0

\* C9: score does not decrease on a Move or on a Tick of a non-game-over
\* snapshot; Restart and a Tick of a game-over snapshot set it to 0, and no
\* other event makes it smaller.
C9_ScoreMonotoneInLife ==
  [][/\ (last'.type = "Move" \/ PlayingTick) => score' >= score
     /\ (last'.type = "Restart" \/ (last'.type = "Tick" /\ gameOver)) => score' = 0
    ]_vars

C9_Witness ==
  /\ last.type = "Tick" /\ ~last.gameOver /\ last.filled = 5
  /\ score = last.score /\ score > 0

\* C10: filledSpacesIndex holds only values 0..4, none twice, so at most five.
C10_FilledWellFormed ==
  /\ \A i \in 1..Len(filledSpacesIndex) : filledSpacesIndex[i] \in 0..4
  /\ \A i, j \in 1..Len(filledSpacesIndex) :
       i # j => filledSpacesIndex[i] # filledSpacesIndex[j]
  /\ Len(filledSpacesIndex) <= 5

C10_Witness ==
  /\ Len(filledSpacesIndex) = 5
  /\ last.type = "Tick" /\ last.target = "fresh"

\* C11: Restart and a Tick of a game-over snapshot set level to 0; a Tick of a
\* non-game-over snapshot adds exactly 1 if and only if all five indices were
\* filled before it; Move and every other Tick leave level as it was.
C11_LevelSteps ==
  [][/\ (last'.type = "Restart" \/ (last'.type = "Tick" /\ gameOver)) => level' = 0
     /\ (PlayingTick /\ Len(filledSpacesIndex) = 5) => level' = level + 1
     /\ (PlayingTick /\ Len(filledSpacesIndex) # 5) => level' = level
     /\ last'.type = "Move" => level' = level]_vars

C11_Witness ==
  /\ last.type = "Restart" /\ last.level = 1
  /\ level = 0

\* C12: Move(dx, dy) commits x + dx unless it is below 21 or at least 580, and
\* y + dy unless it is below 51 or at least 582, each axis on its own: a
\* rejected component on one axis does not hold back the other.
C12_MoveAxes ==
  last.type = "Move" =>
    LET x == last.frog.x + last.x
        y == last.frog.y + last.y
    IN /\ frog.x = IF x < px(21) \/ x >= px(580) THEN last.frog.x ELSE x
       /\ frog.y = IF y < px(51) \/ y >= px(582) THEN last.frog.y ELSE y

C12_Witness ==
  /\ last.type = "Move" /\ last.x = px(43) /\ last.y = -px(59)
  /\ last.frog.y = px(51)
  /\ frog.y = px(51) /\ frog.x = last.frog.x + px(43)

\* C13: a Move changes only the frog's x and y; bodies, slots, filled list,
\* score, highscore, level and gameOver stay, so gameOver turns from FALSE to
\* TRUE on a Tick only, wherever the Move puts the frog.
C13_MoveFrame ==
  [][/\ last'.type = "Move" =>
          /\ frog' = [frog EXCEPT !.x = frog'.x, !.y = frog'.y]
          /\ UNCHANGED <<cars, logs, turtles, filledSpaces, filledSpacesIndex,
                         score, highscore, level, gameOver>>
     /\ (~gameOver /\ gameOver') => last'.type = "Tick"]_vars

C13_Witness ==
  /\ last.type = "Move" /\ ~gameOver
  /\ frog.y >= px(110) /\ frog.y <= px(228)
  /\ ~(frogOnLog(State) \/ frogOnTurtle(State))

\* Velocity of a body's row at level L as the claims state it, in half pixels
\* per tick: cars -(10 + L/2), +(20 + L/2), -(15 + L/2) for rows 1, 2, 3;
\* logs +(10 + L/2), +(15 + L/2) for rows 1, 2; turtles -(5 + L/2).
RowVelocity(id, L) ==
  IF id[1] = "CAR"
  THEN (IF id[2] = 1 THEN -(px(10) + L)
        ELSE IF id[2] = 2 THEN px(20) + L ELSE -(px(15) + L))
  ELSE IF id[1] = "LOG"
  THEN (IF id[2] = 1 THEN px(10) + L ELSE px(15) + L)
  ELSE -(px(5) + L)

InBand(f, body) == f.y = body.y /\ f.x >= body.x /\ f.x < body.x + px(129)

\* C14: on a Tick of a non-game-over snapshot, a frog that stands in the
\* riding band of a log or turtle on its row ends the tick at its x plus the
\* velocity of that platform's row at the current level, with y unchanged.
C14_PlatformCarry ==
  [][PlayingTick =>
       /\ \A i \in 1..Len(logs) :
            InBand(frog, logs[i]) =>
              /\ frog'.x = frog.x + RowVelocity(logs[i].id, level)
              /\ frog'.y = frog.y
       /\ \A i \in 1..Len(turtles) :
            InBand(frog, turtles[i]) =>
              /\ frog'.x = frog.x + RowVelocity(turtles[i].id, level)
              /\ frog'.y = frog.y]_vars

C14_Witness ==
  /\ last.type = "Tick" /\ ~last.gameOver /\ last.riding
  /\ last.level = 1
  /\ frog.y = px(110)

Bodies == {cars[i] : i \in 1..Len(cars)} \cup {logs[i] : i \in 1..Len(logs)}
            \cup {turtles[i] : i \in 1..Len(turtles)}

\* C15: after a Tick has advanced it, every obstacle and platform still
\* overlaps the canvas: -width < x < 600, at every level.
C15_WrapKeepsOnCanvas ==
  (last.type = "Tick" /\ ~last.gameOver) =>
    \A b \in Bodies : -b.width < b.x /\ b.x < px(600)

C15_Witness ==
  /\ last.type = "Tick" /\ level = 1
  /\ \E i \in 1..Len(turtles) : turtles[i].x = px(600) - turtles[i].width \div 2
  /\ \E i \in 1..Len(logs) : logs[i].x = -(logs[i].width \div 2)

\* advance(body, rightward, v) as the claim states it
Advance(b, v) ==
  LET newX == b.x + v
  IN [b EXCEPT !.x = IF v > 0 /\ newX >= px(600) THEN -(b.width \div 2)
                     ELSE IF v < 0 /\ newX <= -b.width THEN px(600) - b.width \div 2
                     ELSE newX]

\* C18: a Tick takes each body to x + v, or to -width/2 when it moves right
\* and x + v >= 600, or to 600 - width/2 when it moves left and
\* x + v <= -width; y, id, width and height of a body never change.
C18_AdvanceShape ==
  [][last'.type = "Tick" =>
       /\ \A i \in 1..Len(cars) : cars'[i] = Advance(cars[i], RowVelocity(cars[i].id, level))
       /\ \A i \in 1..Len(logs) : logs'[i] = Advance(logs[i], RowVelocity(logs[i].id, level))
       /\ \A i \in 1..Len(turtles) :
            turtles'[i] = Advance(turtles[i], RowVelocity(turtles[i].id, level))
       /\ Len(cars') = Len(cars) /\ Len(logs') = Len(logs)
       /\ Len(turtles') = Len(turtles)]_vars

C18_Witness ==
  /\ last.type = "Tick"
  /\ \E i \in 1..Len(cars) : cars[i].x = px(600) - cars[i].width \div 2
  /\ \E i \in 1..Len(cars) : cars[i].x = -(cars[i].width \div 2)

\* C16: the initial snapshot has score 0, highscore 0, level 0, gameOver
\* false, no filled index, exactly five target slots, and the frog at
\* (279, 523).
C16_InitialSnapshot ==
  (last.type = "Init" /\ last.filled = 0) =>
    /\ State = initialState
    /\ score = 0 /\ highscore = 0 /\ level = 0 /\ gameOver = FALSE
    /\ filledSpacesIndex = <<>>
    /\ Len(filledSpaces) = 5
    /\ Cardinality({filledSpaces[i].x : i \in 1..5}) = 5
    /\ frog.x = px(279) /\ frog.y = px(523)

C16_Witness ==
  /\ last.type = "Init" /\ ticks = 0
  /\ State = initialState

StepOf(b, L) == Advance(b, RowVelocity(b.id, L))
RolloverTick == PlayingTick /\ Len(filledSpacesIndex) = 5

\* C17 as stated: the Tick that rolls the level over leaves the freshly
\* constructed cars, logs, turtles and target slots.
C17_RolloverRebuilds ==
  [][RolloverTick =>
       /\ cars' = initialCars /\ logs' = initialLogs
       /\ turtles' = initialTurtles
       /\ filledSpaces' = initialFilledSpaces]_vars

\* C17, amended: the Tick that rolls the level over advances the previous
\* cars, logs and turtles by one motion step at the pre-increment level and
\* leaves the target slots as they were; nothing is constructed afresh.
C17_RolloverAdvances ==
  [][RolloverTick =>
       /\ cars' = [i \in 1..Len(cars) |-> StepOf(cars[i], level)]
       /\ logs' = [i \in 1..Len(logs) |-> StepOf(logs[i], level)]
       /\ turtles' = [i \in 1..Len(turtles) |-> StepOf(turtles[i], level)]
       /\ filledSpaces' = filledSpaces
       /\ level' = level + 1]_vars

C17_Witness ==
  /\ last.type = "Tick" /\ ~last.gameOver /\ last.filled = 5
  /\ cars # initialCars /\ logs # initialLogs /\ turtles # initialTurtles
  /\ filledSpaces = initialFilledSpaces

\* C19: a Tick of a non-game-over snapshot at level L moves car row 1 by
\* -(10 + 0.5L), car row 2 by +(20 + 0.5L), car row 3 by -(15 + 0.5L), log
\* row 1 by +(10 + 0.5L), log row 2 by +(15 + 0.5L) and the turtles by
\* -(5 + 0.5L), one wrap-step each; L is the level before the Tick, also on
\* the Tick that rolls the level over.
C19_RowVelocities ==
  [][PlayingTick =>
       /\ \A i \in 1..Len(cars) :
            cars'[i] = Advance(cars[i],
                               CASE cars[i].id[2] = 1 -> -(px(10) + level)
                                 [] cars[i].id[2] = 2 -> px(20) + level
                                 [] OTHER -> -(px(15) + level))
       /\ \A i \in 1..Len(logs) :
            logs'[i] = Advance(logs[i],
                               IF logs[i].id[2] = 1 THEN px(10) + level
                               ELSE px(15) + level)
       /\ \A i \in 1..Len(turtles) :
            turtles'[i] = Advance(turtles[i], -(px(5) + level))]_vars

C19_Witness ==
  /\ last.type = "Tick" /\ ~last.gameOver /\ last.level = 1
  /\ level = 1 /\ ~gameOver
  /\ cars # initialCars

\* C20: a Tick of a game-over snapshot yields gameOver = false, and since
\* the clock keeps ticking every game-over snapshot is eventually followed by
\* a playing one.
C20_Recovery ==
  /\ [][(last'.type = "Tick" /\ gameOver) => ~gameOver']_vars
  /\ (gameOver ~> ~gameOver)

C20_Witness ==
  /\ last.type = "Tick" /\ last.gameOver /\ ~gameOver
  /\ frog = initialFrog

SlotColumn(k) == px(21 + 129 * (k - 1))
BushColumns == {px(c) : c \in {64, 107, 193, 236, 322, 365, 451, 494}}

\* C21: the five slots sit at x = 21, 150, 279, 408, 537 on the goal row; a
\* frog on the goal row at slot k's x is in the target and its nearest slot
\* gives filled index k - 1; at the eight other step columns 64, 107, 193,
\* 236, 322, 365, 451, 494 the frog is on a bush, not in the target, and the
\* next Tick of the running game sets gameOver.
C21_GoalRow ==
  [][/\ \A k \in 1..5 : \E i \in 1..Len(filledSpaces) :
          /\ filledSpaces[i].id = <<"FILLED", k>>
          /\ filledSpaces[i].x = SlotColumn(k)
          /\ filledSpaces[i].y = px(51)
     /\ frog.y = px(51) =>
          /\ \A k \in 1..5 :
               frog.x = SlotColumn(k) =>
                 inTarget(State) /\ nearestObject(State).id[2] - 1 = k - 1
          /\ frog.x \in BushColumns =>
               /\ onBushes(frog) /\ ~inTarget(State)
               /\ PlayingTick => gameOver'
    ]_vars

C21_Witness ==
  /\ last.type = "Tick" /\ ~last.gameOver /\ last.target = "none"
  /\ gameOver
  /\ frog.y = px(51) /\ frog.x = px(236)

\* C22: in every reachable snapshot score = 100 * (5 * level + number of
\* filled indices), through fills, rollovers, Restart and game-over resets.
C22_ScoreTracksProgress ==
  score = 100 * (5 * level + Len(filledSpacesIndex))

C22_Witness ==
  /\ last.type = "Tick" /\ last.target = "fresh" /\ last.level = 1
  /\ level = 1 /\ Len(filledSpacesIndex) = 1 /\ score = 600

\* C23: in every reachable snapshot score <= highscore + 100; score exceeds
\* highscore only from a scoring Tick until the next Tick: a Tick that awards
\* nothing closes the gap, and so does a Restart, which discards the score.
C23_HighscoreLag ==
  [][/\ score <= highscore + 100
     /\ score' <= highscore' + 100
     /\ (score <= highscore /\ score' > highscore') =>
          (PlayingTick /\ score' = score + 100)
     /\ (last'.type = "Tick" /\ score' # score + 100) => score' <= highscore'
     /\ last'.type = "Restart" => score' <= highscore'
    ]_vars

C23_Witness ==
  /\ last.type = "Tick" /\ last.target = "fresh" /\ last.filled = 4
  /\ score = 500 /\ highscore = 400

\* C24: no reachable snapshot has gameOver = TRUE together with all five
\* slots filled; the Tick that fills the fifth slot returns the frog to the
\* start position with gameOver = FALSE, so the pending rollover is never
\* pre-empted by the game-over branch.
C24_RolloverNotPreempted ==
  [][/\ ~(gameOver /\ Len(filledSpacesIndex) = 5)
     /\ ~(gameOver' /\ Len(filledSpacesIndex') = 5)
     /\ (Len(filledSpacesIndex) = 4 /\ Len(filledSpacesIndex') = 5) =>
          (PlayingTick /\ frog' = initialFrog /\ ~gameOver')
     /\ (last'.type = "Tick" /\ Len(filledSpacesIndex) = 5) => level' = level + 1
    ]_vars

C24_Witness ==
  /\ last.type = "Tick" /\ last.filled = 4 /\ last.target = "fresh"
  /\ Len(filledSpacesIndex) = 5 /\ ~gameOver /\ frog = initialFrog

\* C25: when all five slots are filled and the frog stands in a target gap,
\* the Tick (the rollover) awards no points, leaves filledSpacesIndex empty
\* and returns the frog to the start position.
C25_RolloverDiscardsEntry ==
  [][(RolloverTick /\ inTarget(State)) =>
       /\ score' = score
       /\ filledSpacesIndex' = <<>>
       /\ frog' = initialFrog
       /\ level' = level + 1]_vars

C25_Witness ==
  /\ last.type = "Tick" /\ ~last.gameOver /\ last.filled = 5
  /\ last.target = "filled"
  /\ level = 1 /\ score = 500 /\ filledSpacesIndex = <<>> /\ frog = initialFrog

\* C26: on a Tick of a non-game-over snapshot whose frog is in a target gap,
\* the frog is afterwards at the start position (279, 523) and gameOver is
\* false, whether the entered slot was fresh or already filled.
C26_TargetEntryReturns ==
  [][(PlayingTick /\ inTarget(State)) =>
       /\ frog'.x = px(279) /\ frog'.y = px(523)
       /\ ~gameOver']_vars

C26_Witness ==
  /\ last.type = "Tick" /\ ~last.gameOver /\ last.filled < 5
  /\ last.target = "filled"
  /\ frog.x = px(279) /\ frog.y = px(523) /\ ~gameOver

SlotDistance(i) == Abs(filledSpaces[i].x - frog.x)
NearestSlots ==
  {i \in 1..Len(filledSpaces) :
     \A j \in 1..Len(filledSpaces) : SlotDistance(i) <= SlotDistance(j)}

\* C27: whenever the frog is in the target, exactly one slot is nearest to
\* it, so the slot that nearestObject returns does not depend on the order
\* in which the slots are compared.
C27_NearestUnique ==
  inTarget(State) =>
    /\ Cardinality(NearestSlots) = 1
    /\ \A i \in NearestSlots : nearestObject(State) = filledSpaces[i]

C27_Witness ==
  /\ inTarget(State) /\ ~gameOver
  /\ (frog.x - px(21)) % px(43) # 0
  /\ Cardinality(NearestSlots) = 1

FrogRows == {px(r) : r \in {51, 110, 169, 228, 287, 346, 405, 464, 523}}

\* C28: in every reachable snapshot the frog's y is one of the nine rows 51,
\* 110, 169, 228, 287, 346, 405, 464, 523, and while gameOver is false its x
\* satisfies -20 < x < 580 (a platform can carry it below the Move bound 21,
\* but not half a width past an edge without game-over).
C28_FrogPosition ==
  /\ frog.y \in FrogRows
  /\ ~gameOver => (-px(20) < frog.x /\ frog.x < px(580))

C28_Witness ==
  /\ last.type = "Tick" /\ ~last.gameOver /\ last.riding
  /\ ~gameOver
  /\ frog.x = -px(15) /\ frog.y = px(169)
====
